---- MODULE Spec2Model ----
(***************************************************************************)
(* A model of ipybible: the corpus model (Bible/Book/Chapter/Verse), its   *)
(* construction from the remote source and from the snapshot stored in     *)
(* BIBLE_INDEX, the normalized-text cache, the memoized similarity         *)
(* queries (SEARCH_CACHE) and the book_to_similarity pipeline              *)
(* (pool.map, ChainMap, sort_dict, normalize, filter).                     *)
(*                                                                         *)
(* Python dicts keep insertion order: a dict is modelled as a sequence of  *)
(* <<key, value>> pairs with distinct keys.  A str is modelled as a        *)
(* sequence of tokens in which " " is the whitespace token.  A similarity  *)
(* ratio is an integer number of thousandths (0 .. 1000).                  *)
(***************************************************************************)
EXTENDS Integers, Sequences, FiniteSets, TLC

(***************************************************************************)
(* Bounds of the model.                                                    *)
(***************************************************************************)
NumBooks == 2
MaxChapter == 2
MaxVerse == 1
MaxCalls == 2
MaxSimBooks == 10
PoolSize == 2

(***************************************************************************)
(* Python dict, as a sequence of <<key, value>> pairs.                     *)
(***************************************************************************)
Keys(d) == {d[i][1] : i \in 1..Len(d)}

HasKey(d, k) == \E i \in 1..Len(d) : d[i][1] = k

Get(d, k) == d[CHOOSE i \in 1..Len(d) : d[i][1] = k][2]

\* d[k] = v: replaces the value in place when k is a key, appends otherwise
Put(d, k, v) ==
  IF HasKey(d, k)
    THEN [i \in 1..Len(d) |-> IF d[i][1] = k THEN <<k, v>> ELSE d[i]]
    ELSE Append(d, <<k, v>>)

Values(d) == [i \in 1..Len(d) |-> d[i][2]]

KeyList(d) == [i \in 1..Len(d) |-> d[i][1]]

Range(s) == {s[i] : i \in 1..Len(s)}

(***************************************************************************)
(* str operations used by the corpus model.                                *)
(***************************************************************************)
RECURSIVE StripLeft(_)
StripLeft(s) ==
  IF s # <<>> /\ Head(s) = " " THEN StripLeft(Tail(s)) ELSE s

RECURSIVE StripRight(_)
StripRight(s) ==
  IF s # <<>> /\ s[Len(s)] = " " THEN StripRight(SubSeq(s, 1, Len(s) - 1)) ELSE s

\* str.strip()
Strip(s) == StripLeft(StripRight(s))

\* " ".join(parts)
RECURSIVE Join(_)
Join(parts) ==
  IF parts = <<>> THEN <<>>
  ELSE IF Len(parts) = 1 THEN parts[1]
  ELSE parts[1] \o <<" ">> \o Join(Tail(parts))

(***************************************************************************)
(* The corpus model: Verse, Chapter, Book and the dict Bible._books.       *)
(***************************************************************************)
BookNames ==
  <<"genesis", "exodus", "psalms", "proverbs", "isaiah", "matthew",
    "mark", "luke", "john", "acts", "romans", "jude", "revelation">>

\* the canonical book list (ipybible.books.BOOKS), cut to NumBooks names
BOOKS == SubSeq(BookNames, 1, NumBooks)

Languages == {"EN", "NL"}

Versions == {"kjv", "basicenglish", "statenvertaling"}

\* bible_app.VERSION_TO_LANGUAGE
VERSION_TO_LANGUAGE(version) ==
  IF version = "statenvertaling" THEN "NL" ELSE "EN"

Verse(number, text, language) ==
  [number |-> number, text |-> text, language |-> language]

\* Chapter.__post_init__
Chapter(number, language) ==
  [number |-> number, language |-> language, verses |-> <<>>]

\* Book.__post_init__
Book(name, language) ==
  [name |-> name, language |-> language, chapters |-> <<>>]

\* Chapter.add_verse storing the verse whether or not the number is present
add_verse_last(chapter, verse) ==
  [chapter EXCEPT !.verses =
     Put(@, verse.number, Verse(verse.number, verse.text, chapter.language))]

\* Chapter.add_verse: the chapter after the call
add_verse(chapter, verse) ==
  IF ~HasKey(chapter.verses, verse.number)
    THEN [chapter EXCEPT !.verses =
            Put(@, verse.number,
                Verse(verse.number, verse.text, chapter.language))]
    ELSE chapter

\* Book.chapter storing a new Chapter whether or not the number is present
chapter_replaced(book, chapter_number) ==
  [book EXCEPT !.chapters =
     Put(@, chapter_number, Chapter(chapter_number, book.language))]

\* Book.chapter: the book after the call (the child is created when absent)
chapter_created(book, chapter_number) ==
  IF ~HasKey(book.chapters, chapter_number)
    THEN [book EXCEPT !.chapters =
            Put(@, chapter_number, Chapter(chapter_number, book.language))]
    ELSE book

\* Bible.book storing a new Book whether or not the name is present
book_replaced(books, name, language) == Put(books, name, Book(name, language))

\* Bible.book: the dict _books after the call (the child is created when absent)
book_created(books, name, language) ==
  IF ~HasKey(books, name)
    THEN Put(books, name, Book(name, language))
    ELSE books

\* Chapter.verse: the Verse, or None
NoneValue == [none |-> TRUE]

verse_of(chapter, verse_number) ==
  IF HasKey(chapter.verses, verse_number)
    THEN Get(chapter.verses, verse_number)
    ELSE NoneValue

\* Chapter.text joining the verses in the order of their numbers
ChapterTextByNumber(chapter) ==
  LET verses == chapter.verses
      nth(i) == CHOOSE j \in 1..Len(verses) :
                  Cardinality({k \in 1..Len(verses) : verses[k][1] < verses[j][1]}) = i - 1
  IN Join([i \in 1..Len(verses) |-> Strip(verses[nth(i)][2].text)])

\* Chapter.text
ChapterText(chapter) ==
  Join([i \in 1..Len(chapter.verses) |-> Strip(chapter.verses[i][2].text)])

\* Book.text
BookText(book) ==
  Join([i \in 1..Len(book.chapters) |-> Strip(ChapterText(book.chapters[i][2]))])

\* Chapter.num_verse and Book.num_chapter
num_verse(chapter) == Cardinality(Keys(chapter.verses))

num_chapter(book) == Cardinality(Keys(book.chapters))

\* Bible.total_chapter
RECURSIVE SumSeq(_)
SumSeq(s) == IF s = <<>> THEN 0 ELSE Head(s) + SumSeq(Tail(s))

total_chapter(books) ==
  SumSeq([i \in 1..Len(books) |-> num_chapter(books[i][2])])

\* int(key) of a wire-format key
IntOf(key) == CHOOSE n \in 0..9 : ToString(n) = key

\* self.book(book).chapter(int(chapter_num)).add_verse(verse): _books after it
AddOne(books, language, book, chapter_num, verse_num, verse_text) ==
  LET withBook == book_created(books, book, language)
      withChapter == chapter_created(Get(withBook, book), IntOf(chapter_num))
      ch == Get(withChapter.chapters, IntOf(chapter_num))
      filled == add_verse(ch, Verse(IntOf(verse_num), Strip(verse_text), language))
  IN Put(withBook, book,
         [withChapter EXCEPT !.chapters = Put(@, IntOf(chapter_num), filled)])

(***************************************************************************)
(* Bible.populate_book.  chapter_to_verse is the value of the "book" key   *)
(* of the response, a dict chapter_num -> chapter object; a chapter object *)
(* is [chapter |-> dict verse_num -> verse object]                         *)
(* and a verse object is [verse |-> text].  An object without its key      *)
(* (NoKey) raises KeyError where the code subscripts it.  The result is    *)
(* the dict _books reached and whether the call returned (ok) or raised.   *)
(***************************************************************************)
NoKey == [nokey |-> TRUE]

RECURSIVE PopulateVerses(_, _, _, _, _)
PopulateVerses(books, language, book, chapter_num, verse_to_text) ==
  IF verse_to_text = <<>> THEN [books |-> books, ok |-> TRUE]
  ELSE LET verse_num == Head(verse_to_text)[1]
           obj == Head(verse_to_text)[2]
       IN IF obj = NoKey THEN [books |-> books, ok |-> FALSE]
          ELSE PopulateVerses(
                 AddOne(books, language, book, chapter_num, verse_num, obj.verse),
                 language, book, chapter_num, Tail(verse_to_text))

RECURSIVE populate_book(_, _, _, _)
populate_book(books, language, book, chapter_to_verse) ==
  IF chapter_to_verse = <<>> THEN [books |-> books, ok |-> TRUE]
  ELSE LET chapter_num == Head(chapter_to_verse)[1]
           obj == Head(chapter_to_verse)[2]
       IN IF obj = NoKey THEN [books |-> books, ok |-> FALSE]
          ELSE LET r == PopulateVerses(books, language, book, chapter_num, obj.chapter)
               IN IF r.ok
                    THEN populate_book(r.books, language, book, Tail(chapter_to_verse))
                    ELSE r

(***************************************************************************)
(* The remote source (getbible.net).  A response body is U (NullBody), a   *)
(* JSON                                                                    *)
(* object without the "book" key (NoKey), or [book |-> chapter_to_verse];  *)
(* a request can also fail (RequestError).  The source's text for a verse  *)
(* is a fixed line per position; a response can leave out chapters or      *)
(* verses, and can hold a chapter object without its "chapter" key.        *)
(***************************************************************************)
Lines ==
  << <<"God", " ", "loves", " ", "the", " ", "world", " ">>,
     <<"the", " ", "Lord", " ", "loves", " ", "he">>,
     <<" ", "God", " ", "loves", " ", "the", " ", "Lord", ".">>,
     <<"de", " ", "world", " ", "loves", " ", "God">>,
     <<"Lord", " ", "God", " ", "world">>,
     <<".">> >>

Line(chapter, verse) == Lines[((2 * (chapter - 1) + (verse - 1)) % Len(Lines)) + 1]

ChapterObj(chapter, m) ==
  [chapter |-> [v \in 1..m |-> <<ToString(v), [verse |-> Line(chapter, v)]>>]]

ChapterObjs(chapter) == {ChapterObj(chapter, m) : m \in 0..MaxVerse} \cup {NoKey}

RECURSIVE BookDictsOfLen(_)
BookDictsOfLen(n) ==
  IF n = 0 THEN {<<>>}
  ELSE {Append(d, <<ToString(n), obj>>) :
          d \in BookDictsOfLen(n - 1), obj \in ChapterObjs(n)}

BookDicts == UNION {BookDictsOfLen(n) : n \in 0..MaxChapter}

RequestError == [error |-> TRUE]

\* the body "U" (NULL)
NullBody == [null |-> TRUE]

Responses == {NullBody, NoKey, RequestError} \cup {[book |-> d] : d \in BookDicts}

\* retrieve_chapter_to_verse reading the "book" key with a default
retrieve_with_default(clean_text) ==
  IF clean_text = RequestError THEN [raised |-> "RequestException"]
  ELSE IF clean_text = NullBody THEN [raised |-> "BibleNotFound"]
  ELSE IF clean_text = NoKey THEN [raised |-> "", value |-> <<>>]
  ELSE [raised |-> "", value |-> clean_text.book]

\* Bible.retrieve_chapter_to_verse on the body clean_text: the dict
\* book_to_chapter it returns, or the exception it raises
retrieve_chapter_to_verse(clean_text) ==
  IF clean_text = RequestError THEN [raised |-> "RequestException"]
  ELSE IF clean_text = NullBody THEN [raised |-> "BibleNotFound"]
  ELSE IF clean_text = NoKey THEN [raised |-> "BibleNotFound"]
  ELSE [raised |-> "", value |-> clean_text.book]

(***************************************************************************)
(* similarity.normalize_text.  The spaCy pipeline of a language is         *)
(* modelled by what the code reads from it: the tokens of the lowered      *)
(* text, is_punct, is_stop and lemma_.                                     *)
(***************************************************************************)
Lower(token) ==
  CASE token = "God" -> "god"
    [] token = "Lord" -> "lord"
    [] OTHER -> token

\* str.lower()
LowerText(text) == [i \in 1..Len(text) |-> Lower(text[i])]

IsSpace(token) == token = " "

IsPunct(token) == token = "."

STOP_WORDS(language) ==
  IF language = "EN" THEN {"the"} ELSE {"de"}

Lemma(language, token) ==
  IF language = "EN"
    THEN CASE token = "loves" -> "love"
           [] token = "he" -> "-PRON-"
           [] OTHER -> token
    ELSE CASE token = "loves" -> "loves"
           [] OTHER -> token

\* the loop over doc: the list lemma_words
LemmaWords(language, doc) ==
  LET words == SelectSeq(doc, LAMBDA token :
                 /\ ~(IsSpace(token) \/ IsPunct(token)
                        \/ token \in STOP_WORDS(language))
                 /\ Lemma(language, token) # "-PRON-")
  IN [i \in 1..Len(words) |-> <<Lemma(language, words[i])>>]

\* the text normalize_text computes on a cache miss
CleanOf(text, language) == Join(LemmaWords(language, LowerText(text)))

\* sha256(text.encode("utf-8")).hexdigest(): one key per text
Sha256(text) == <<"sha256", text>>

\* normalize_text(text, LANGUAGE_TO_MODEL[language], index_name), where norm
\* is the key -> value content of BIBLE_INDEX under the sha256 keys and
\* index_name the content of the store passed as index_name:
\* the value returned and the content of BIBLE_INDEX after the call
normalize_text(text, language, index_name, norm) ==
  LET index_key == Sha256(text)
  IN IF index_key \in DOMAIN index_name
       THEN IF index_key \in DOMAIN norm
              THEN [raised |-> "", value |-> norm[index_key], norm |-> norm,
                    hit |-> TRUE]
              ELSE [raised |-> "KeyError", value |-> <<>>, norm |-> norm,
                    hit |-> TRUE]
       ELSE LET clean_text == CleanOf(text, language)
            IN [raised |-> "", value |-> clean_text,
                norm |-> [k \in DOMAIN norm \cup {index_key} |->
                            IF k = index_key THEN clean_text ELSE norm[k]],
                hit |-> FALSE]

(***************************************************************************)
(* similarity.cosine_sim and vectorize: CountVectorizer(ngram_range=(2,3)) *)
(* over the two texts, then the cosine of the two count vectors.           *)
(***************************************************************************)
\* the word tokens of a text (whitespace and punctuation separate them)
WordsOf(text) == SelectSeq(text, LAMBDA t : ~IsSpace(t) /\ ~IsPunct(t))

\* the bigrams and trigrams of a text, with repetitions
Grams(text) ==
  LET w == WordsOf(text)
  IN [i \in 1..(IF Len(w) >= 2 THEN Len(w) - 1 ELSE 0) |-> <<w[i], w[i + 1]>>]
     \o [i \in 1..(IF Len(w) >= 3 THEN Len(w) - 2 ELSE 0) |->
           <<w[i], w[i + 1], w[i + 2]>>]

CountIn(g, grams) == Cardinality({i \in 1..Len(grams) : grams[i] = g})

\* the dot product of the count vectors of two n-gram lists
Dot(ga, gb) == SumSeq([i \in 1..Len(ga) |-> CountIn(ga[i], gb)])

\* the largest r in lo..hi with r * r * den <= 1000000 * num
RECURSIVE RootBelow(_, _, _, _)
RootBelow(lo, hi, num, den) ==
  IF lo = hi THEN lo
  ELSE LET mid == (lo + hi + 1) \div 2
       IN IF mid * mid * den <= 1000000 * num
            THEN RootBelow(mid, hi, num, den)
            ELSE RootBelow(lo, mid - 1, num, den)

\* the dot product divided by the squared norm of the first vector only
cosine_sim_first(str_a, str_b) ==
  LET ga == Grams(LowerText(str_a))
      gb == Grams(LowerText(str_b))
      dot == Dot(ga, gb)
  IN IF ga = <<>> /\ gb = <<>> THEN [raised |-> "ValueError", value |-> 0]
     ELSE IF dot = 0 THEN [raised |-> "", value |-> 0]
     ELSE [raised |-> "",
           value |-> RootBelow(0, 1000, dot * dot, Dot(ga, ga) * Dot(ga, ga))]

\* cosine_sim(str_a, str_b): the ratio in thousandths, or the ValueError of
\* CountVectorizer when the two texts give no n-gram at all
cosine_sim(str_a, str_b) ==
  LET ga == Grams(LowerText(str_a))
      gb == Grams(LowerText(str_b))
      dot == Dot(ga, gb)
  IN IF ga = <<>> /\ gb = <<>> THEN [raised |-> "ValueError", value |-> 0]
     ELSE IF dot = 0 THEN [raised |-> "", value |-> 0]
     ELSE [raised |-> "",
           value |-> RootBelow(0, 1000, dot * dot, Dot(ga, ga) * Dot(gb, gb))]

(***************************************************************************)
(* misc.sort_dict and misc.normalize.                                      *)
(***************************************************************************)
by_to_pos(by) == IF by = "key" THEN 1 ELSE 2

\* the place of item in the sorted list s, as sorted() keeps equal items in
\* their input order
RECURSIVE InsertSorted(_, _, _, _)
InsertSorted(s, item, by_pos, reverse) ==
  IF s = <<>> THEN <<item>>
  ELSE IF (reverse /\ Head(s)[by_pos] >= item[by_pos])
          \/ (~reverse /\ Head(s)[by_pos] <= item[by_pos])
    THEN <<Head(s)>> \o InsertSorted(Tail(s), item, by_pos, reverse)
    ELSE <<item>> \o s

RECURSIVE Sorted(_, _, _)
Sorted(items, by_pos, reverse) ==
  IF items = <<>> THEN <<>>
  ELSE InsertSorted(Sorted(SubSeq(items, 1, Len(items) - 1), by_pos, reverse),
                    items[Len(items)], by_pos, reverse)

sort_dict(d, by, reverse) == Sorted(d, by_to_pos(by), reverse)

\* the length test of normalize
MinEntries == 10

\* float("{0:.3f}".format(v / total)), in thousandths
Round3(v, total) ==
  LET q == (1000 * v) \div total
      r == (1000 * v) % total
  IN IF 2 * r > total THEN q + 1
     ELSE IF 2 * r < total THEN q
     ELSE IF q % 2 = 0 THEN q ELSE q + 1

\* normalize leaving a dict of exactly MinEntries entries as it is
normalize_above(d) ==
  LET ratios == Values(d)
      total == SumSeq(ratios)
  IN IF total = 0 \/ Len(ratios) <= MinEntries
       THEN d
       ELSE [i \in 1..Len(d) |-> <<d[i][1], Round3(d[i][2], SumSeq(Values(d)))>>]

normalize(d) ==
  LET ratios == Values(d)
      total == SumSeq(ratios)
  IN IF total = 0 \/ Len(ratios) < MinEntries
       THEN d
       ELSE [i \in 1..Len(d) |-> <<d[i][1], Round3(d[i][2], SumSeq(Values(d)))>>]

(***************************************************************************)
(* The similarity queries.  BIBLE_INDEX is one store with two kinds of     *)
(* keys: a version (-> the dict _books) and a sha256 key (-> normalized    *)
(* text); norm is its content under the sha256 keys.  SEARCH_CACHE keeps   *)
(* the memoized results: memoize() builds its key from the function name   *)
(* and the pickled arguments, self included, so that a result is stored    *)
(* under <<the value of self, text>>.  memo.chap holds the entries of      *)
(* Book.chapter_to_similarity, memo.book those of Bible.book_to_similarity;*)
(* an entry keeps, next to the result, the version of the Bible and the    *)
(* text of the query that computed it (by).                                *)
(***************************************************************************)
\* Chapter.compute_sim
compute_sim(chapter, text, norm) ==
  LET result(sim, c) == [raised |-> sim.raised, value |-> sim.value, norm |-> c.norm]
      compared(q, c) == result(cosine_sim(q.value, c.value), c)
      against(q) ==
        compared(q, normalize_text(ChapterText(chapter), chapter.language,
                                   q.norm, q.norm))
  IN against(normalize_text(text, chapter.language, norm, norm))

\* the dict comprehension of chapter_to_similarity over self.chapters
RECURSIVE ChapterRatios(_, _, _)
ChapterRatios(chapters, text, norm) ==
  IF chapters = <<>> THEN [raised |-> "", value |-> <<>>, norm |-> norm]
  ELSE LET joined(first, rest) ==
             [raised |-> rest.raised,
              value |-> <<<<Head(chapters).number, first.value>>>> \o rest.value,
              norm |-> rest.norm]
           after(first) ==
             IF first.raised # ""
               THEN [raised |-> first.raised, value |-> <<>>, norm |-> first.norm]
               ELSE joined(first, ChapterRatios(Tail(chapters), text, first.norm))
       IN after(compute_sim(Head(chapters), text, norm))

\* the body of Book.chapter_to_similarity
chapter_to_similarity_body(book, text, norm) ==
  LET ranked(r) == [raised |-> r.raised, value |-> sort_dict(r.value, "value", TRUE),
                    norm |-> r.norm]
  IN ranked(ChapterRatios(Values(book.chapters), text, norm))

\* SEARCH_CACHE.memoize() around a body: the stored result on a hit, else
\* the body's result, stored unless the body raised
Memoized(entries, key, body, by) ==
  IF key \in DOMAIN entries
    THEN [raised |-> "", value |-> entries[key].value, hit |-> TRUE,
          by |-> entries[key].by, entries |-> entries]
    ELSE [raised |-> body.raised, value |-> body.value, hit |-> FALSE, by |-> by,
          entries |-> IF body.raised # "" THEN entries
                      ELSE [k \in DOMAIN entries \cup {key} |->
                              IF k = key THEN [value |-> body.value, by |-> by]
                              ELSE entries[k]]]

\* Book.chapter_to_similarity(text) with its memoization: result, and the
\* two stores after the call
chapter_to_similarity(book, text, norm, chap, by) ==
  LET key == <<book, text>>
      result(body, m) ==
        [raised |-> m.raised, value |-> m.value, hit |-> m.hit, by |-> m.by,
         norm |-> body.norm, chap |-> m.entries]
      memoized(body) == result(body, Memoized(chap, key, body, <<by, text>>))
  IN memoized(IF key \in DOMAIN chap
                THEN [raised |-> "", value |-> <<>>, norm |-> norm]
                ELSE chapter_to_similarity_body(book, text, norm))

\* the last of the chapter ratios instead of the first
TopRatioLast(chapter_ratios) == chapter_ratios[Len(chapter_ratios)]

\* top_chapter_ratio = chapter_ratios[0]
TopRatio(chapter_ratios) == chapter_ratios[1]

\* compute_book_to_similarity after the call of book.chapter_to_similarity:
\* the one-entry dict of the book, or the IndexError of chapter_ratios[0]
BookScore(name, chapter_to_sim) ==
  LET chapter_ratios == Values(chapter_to_sim)
  IN IF chapter_ratios = <<>>
       THEN [raised |-> "IndexError", value |-> <<>>]
       ELSE [raised |-> "", value |-> <<<<name, TopRatio(chapter_ratios)>>>>]

\* Bible.compute_book_to_similarity, the task of a worker
compute_book_to_similarity(book, text, norm, chap, by) ==
  LET scored(c, score) ==
        IF c.raised # ""
          THEN [raised |-> c.raised, value |-> <<>>, norm |-> c.norm, chap |-> c.chap]
          ELSE [raised |-> score.raised, value |-> score.value, norm |-> c.norm,
                chap |-> c.chap]
      task(c) == scored(c, BookScore(book.name, c.value))
  IN task(chapter_to_similarity(book, text, norm, chap, by))

\* pool.map(compute_text, self.books): the list of the tasks' results in the
\* order of the books; the call raises when a task raised
RECURSIVE PoolMap(_, _, _, _, _)
PoolMap(books, text, norm, chap, by) ==
  IF books = <<>>
    THEN [raised |-> "", value |-> <<>>, norm |-> norm, chap |-> chap]
    ELSE LET joined(first, rest) ==
               [raised |-> IF first.raised # "" THEN first.raised ELSE rest.raised,
                value |-> <<first.value>> \o rest.value,
                norm |-> rest.norm, chap |-> rest.chap]
             after(first) ==
               joined(first, PoolMap(Tail(books), text, first.norm, first.chap, by))
         IN after(compute_book_to_similarity(Head(books), text, norm, chap, by))

\* dict(ChainMap(*res)): a key has the value of the first map holding it,
\* and the keys come in the order of the maps from the last to the first
RECURSIVE ChainMapDict(_)
ChainMapDict(res) ==
  IF res = <<>> THEN <<>>
  ELSE LET later == ChainMapDict(Tail(res))
           first == Head(res)
           kept == SelectSeq(first, LAMBDA kv : ~HasKey(later, kv[1]))
       IN [i \in 1..Len(later) |->
             IF HasKey(first, later[i][1])
               THEN <<later[i][1], Get(first, later[i][1])>>
               ELSE later[i]] \o kept

\* a filter that keeps the entries of ratio 0.0
FilteredNonNegative(d) == SelectSeq(d, LAMBDA kv : kv[2] >= 0)

\* the dict comprehension "if r > 0.0"
Filtered(d) == SelectSeq(d, LAMBDA kv : kv[2] > 0)

\* Bible.book_to_similarity after pool.map
Ranking(res) ==
  Filtered(normalize(sort_dict(ChainMapDict(res), "value", TRUE)))

\* the body of Bible.book_to_similarity
book_to_similarity_body(bible, text, norm, chap) ==
  LET ranked(res) ==
        [raised |-> res.raised,
         value |-> IF res.raised # "" THEN <<>> ELSE Ranking(res.value),
         norm |-> res.norm, chap |-> res.chap]
  IN ranked(PoolMap(Values(bible.books), text, norm, chap, bible.version))

\* Bible.book_to_similarity(text) with its memoization
book_to_similarity(bible, text, norm, memo) ==
  LET key == <<bible, text>>
      result(body, m) ==
        [raised |-> m.raised, value |-> m.value, hit |-> m.hit, by |-> m.by,
         norm |-> body.norm, memo |-> [chap |-> body.chap, book |-> m.entries]]
      memoized(body) ==
        result(body, Memoized(memo.book, key, body, <<bible.version, text>>))
  IN memoized(IF key \in DOMAIN memo.book
                THEN [raised |-> "", value |-> <<>>, norm |-> norm,
                      chap |-> memo.chap]
                ELSE book_to_similarity_body(bible, text, norm, memo.chap))

(***************************************************************************)
(* The state.                                                              *)
(***************************************************************************)
VARIABLES
  BIBLE_INDEX,   \* [snap: version -> _books, norm: sha256 key -> text]
  SEARCH_CACHE,  \* [chap, book]: the memoized query results
  pc,            \* where the caller of Bible(...) is
  bible,         \* the Bible object under construction or returned
  nextBook,      \* the index in BOOKS of the book the build fetches next
  ret,           \* what the last construction did
  supplied,      \* the dicts populated to completion by the running build
  partial,       \* versions a build of which stopped with books missing
  built,         \* version -> the dict _books a completed build persisted
  asked,         \* the queries that returned a result so far
  lastOp,        \* the last call made on the returned Bible
  calls,         \* the number of calls made on Bible objects
  simPc,         \* where a run of book_to_similarity's body is
  simBooks,      \* its books: <<name, the ratio of each chapter for the text>>
  simNext,       \* the index of the next book pool.map hands to a worker
  simRunning,    \* the indexes of the books workers are computing
  simRes,        \* res: the results of the finished tasks, by index
  simRuns,       \* how many tasks have run for each index
  simMerged,     \* book_to_similarity = dict(ChainMap(*res))
  simSorted,     \* sort_dict(book_to_similarity, by="value")
  simNormalized, \* normalized_book_to_similarity
  simOut,        \* filtered_book_to_similarity
  fnPc,          \* where the call of a function on drawn arguments is
  fnOp,          \* the function called
  fnArgs,        \* its arguments
  fnOut,         \* what it returned or raised
  nrmPc,         \* worker -> where its call of normalize_text is
  nrmArgs,       \* worker -> <<text, language>> of its call
  nrmKey,        \* worker -> index_key of its call
  nrmRet,        \* worker -> what its last finished call did
  nrmTok,        \* text -> how many times a language model tokenized it
  nrmFirst,      \* text -> <<value, language>> of the first store of the text
  fillBooks,     \* _books of a Bible that is filled call by call
  fillOp,        \* the last call made while filling it
  app            \* the BibleApp: its attributes and what its widgets hold

mainVars ==
  <<BIBLE_INDEX, SEARCH_CACHE, pc, bible, nextBook, ret, supplied, partial,
    built, asked, lastOp, calls>>

simVars ==
  <<simPc, simBooks, simNext, simRunning, simRes, simRuns, simMerged, simSorted,
    simNormalized, simOut>>

fnVars == <<fnPc, fnOp, fnArgs, fnOut>>

nrmVars == <<nrmPc, nrmArgs, nrmKey, nrmRet, nrmTok, nrmFirst>>

fillVars == <<fillBooks, fillOp>>

appVars == <<app>>

auxVars == <<fnVars, nrmVars, fillVars, appVars>>

vars == <<mainVars, simVars, auxVars>>

QueryTexts ==
  { <<"God", " ", "loves", " ", "the", " ", "Lord">>, <<"the", " ", "he">> }

\* a name outside the canonical list
OtherBook == "enoch"

NoBible == [version |-> "", language |-> "", books |-> <<>>]

NoRet ==
  [status |-> "none", version |-> "", path |-> "", fetched |-> FALSE,
   wasPartial |-> FALSE, wasBuilt |-> FALSE, books |-> <<>>, exc |-> "", at |-> 0,
   first |-> NoneValue]

NoOp ==
  [op |-> "", created |-> FALSE, hit |-> FALSE, repeat |-> FALSE,
   by |-> <<"", <<>>>>, text |-> <<>>, raised |-> "", value |-> <<>>]

EmptyFcn == [x \in {} |-> x]

MainInit ==
  /\ BIBLE_INDEX = [snap |-> EmptyFcn, norm |-> EmptyFcn]
  /\ SEARCH_CACHE = [chap |-> EmptyFcn, book |-> EmptyFcn]
  /\ pc = "idle"
  /\ bible = NoBible
  /\ nextBook = 1
  /\ ret = NoRet
  /\ supplied = <<>>
  /\ partial = {}
  /\ built = EmptyFcn
  /\ asked = {}
  /\ lastOp = NoOp
  /\ calls = 0

SimIdle ==
  /\ simPc = "idle"
  /\ simBooks = <<>>
  /\ simNext = 1
  /\ simRunning = {}
  /\ simRes = <<>>
  /\ simRuns = <<>>
  /\ simMerged = <<>>
  /\ simSorted = <<>>
  /\ simNormalized = <<>>
  /\ simOut = <<>>

FnIdle ==
  /\ fnPc = "idle"
  /\ fnOp = ""
  /\ fnArgs = <<>>
  /\ fnOut = NoneValue

\* the worker processes of a Pool
Workers == 1..PoolSize

NoCall == [text |-> <<>>, language |-> "", hit |-> FALSE, value |-> NoneValue]

NrmIdle ==
  /\ nrmPc = [p \in Workers |-> "idle"]
  /\ nrmArgs = [p \in Workers |-> <<>>]
  /\ nrmKey = [p \in Workers |-> <<>>]
  /\ nrmRet = [p \in Workers |-> NoCall]
  /\ nrmTok = EmptyFcn
  /\ nrmFirst = EmptyFcn

\* returned: the child the call returned (for add_verse, the Verse passed)
NoFill == [op |-> "", key |-> <<>>, created |-> FALSE, returned |-> NoneValue]

FillIdle ==
  /\ fillBooks = <<>>
  /\ fillOp = NoFill

\* no BibleApp was created
AppIdle == app = NoneValue

AuxIdle == FnIdle /\ NrmIdle /\ FillIdle /\ AppIdle

Init == MainInit /\ SimIdle /\ AuxIdle

\* a membership test that never finds the version
InIndexNever(index, version) == FALSE

\* self.version in BIBLE_INDEX

InIndex(index, version) == version \in DOMAIN index.snap

\* BIBLE_INDEX[index_name] = self._books
Persisted(index, version, books) ==
  [index EXCEPT !.snap = [v \in DOMAIN index.snap \cup {version} |->
                            IF v = version THEN books ELSE index.snap[v]]]

(***************************************************************************)
(* Bible(version, language): __post_init__ up to the first fetch.  With a  *)
(* snapshot under the version the object is returned at once.              *)
(***************************************************************************)
Construct(version, language) ==
  /\ UNCHANGED <<simVars, auxVars>>
  /\ pc \in {"idle", "returned", "raised"}
  /\ lastOp' = NoOp
  /\ supplied' = <<>>
  /\ nextBook' = 1
  /\ UNCHANGED <<BIBLE_INDEX, SEARCH_CACHE, partial, built, asked, calls>>
  /\ IF InIndex(BIBLE_INDEX, version)
       THEN /\ bible' = [version |-> version, language |-> language,
                         books |-> BIBLE_INDEX.snap[version]]
            /\ pc' = "returned"
            /\ ret' = [NoRet EXCEPT !.status = "bible", !.version = version,
                         !.path = "cache",
                         !.wasPartial = (version \in partial),
                         !.wasBuilt = (version \in DOMAIN built),
                         !.books = BIBLE_INDEX.snap[version]]
       ELSE /\ bible' = [version |-> version, language |-> language,
                         books |-> <<>>]
            /\ pc' = "building"
            /\ ret' = [NoRet EXCEPT !.status = "running", !.version = version,
                         !.path = "fetch",
                         !.wasPartial = (version \in partial),
                         !.wasBuilt = (version \in DOMAIN built)]

\* the build stops with an exception: the object is not returned
Abort(exc, didFetch, first) ==
  /\ pc' = "raised"
  /\ bible' = NoBible
  /\ ret' = [ret EXCEPT !.status = "raised", !.exc = exc, !.at = nextBook,
                        !.fetched = didFetch, !.first = first]
  /\ partial' = IF pc = "building" /\ InIndex(BIBLE_INDEX, bible.version)
                  THEN partial \cup {bible.version} ELSE partial

(***************************************************************************)
(* One turn of the loop "for book in BOOKS": fetch, populate, persist.     *)
(***************************************************************************)
BuildBook(response) ==
  /\ UNCHANGED <<simVars, auxVars>>
  /\ pc = "building"
  /\ UNCHANGED <<SEARCH_CACHE, built, asked, lastOp, calls>>
  /\ LET book == BOOKS[nextBook]
         first == IF nextBook = 1 THEN response ELSE ret.first
         fetched == retrieve_chapter_to_verse(response)
         populated == populate_book(bible.books, bible.language, book, fetched.value)
     IN IF fetched.raised # ""
          THEN /\ Abort(fetched.raised, TRUE, first)
               /\ UNCHANGED <<BIBLE_INDEX, nextBook, supplied>>
          ELSE IF ~populated.ok
            THEN /\ Abort("KeyError", TRUE, first)
                 /\ UNCHANGED <<BIBLE_INDEX, nextBook, supplied>>
            ELSE /\ bible' = [bible EXCEPT !.books = populated.books]
                 /\ BIBLE_INDEX' = Persisted(BIBLE_INDEX, bible.version, populated.books)
                 /\ supplied' = Append(supplied, <<book, fetched.value>>)
                 /\ nextBook' = nextBook + 1
                 /\ pc' = IF nextBook = NumBooks THEN "cleaning" ELSE "building"
                 /\ ret' = [ret EXCEPT !.fetched = TRUE, !.first = first]
                 /\ partial' = partial

\* the texts Bible.clean_text normalizes, in the order of its loops
VerseTexts(chapter) == [i \in 1..Len(chapter.verses) |-> chapter.verses[i][2].text]

RECURSIVE ChapterTexts(_)
ChapterTexts(chapters) ==
  IF chapters = <<>> THEN <<>>
  ELSE <<ChapterText(Head(chapters))>> \o VerseTexts(Head(chapters))
       \o ChapterTexts(Tail(chapters))

RECURSIVE CorpusTexts(_)
CorpusTexts(books) ==
  IF books = <<>> THEN <<>>
  ELSE <<BookText(Head(books))>> \o ChapterTexts(Values(Head(books).chapters))
       \o CorpusTexts(Tail(books))

RECURSIVE NormalizeAll(_, _, _)
NormalizeAll(texts, language, norm) ==
  IF texts = <<>> THEN norm
  ELSE NormalizeAll(Tail(texts), language,
                    normalize_text(Head(texts), language, norm, norm).norm)

\* Bible.clean_text: the content of BIBLE_INDEX under the sha256 keys after it
clean_text(b, norm) == NormalizeAll(CorpusTexts(Values(b.books)), b.language, norm)

(***************************************************************************)
(* The end of __post_init__ on the fetch path: self.clean_text(), and the  *)
(* object is returned.                                                     *)
(***************************************************************************)
CleanText ==
  /\ UNCHANGED <<simVars, auxVars>>
  /\ pc = "cleaning"
  /\ BIBLE_INDEX' = [BIBLE_INDEX EXCEPT !.norm = clean_text(bible, @)]
  /\ pc' = "returned"
  /\ ret' = [ret EXCEPT !.status = "bible", !.books = bible.books]
  /\ built' = [v \in DOMAIN built \cup {bible.version} |->
                 IF v = bible.version THEN BIBLE_INDEX.snap[v] ELSE built[v]]
  /\ partial' = partial \ {bible.version}
  /\ supplied' = <<>>
  /\ UNCHANGED <<SEARCH_CACHE, bible, nextBook, asked, lastOp, calls>>

\* the process is interrupted or killed during the build
Interrupt ==
  /\ UNCHANGED <<simVars, auxVars>>
  /\ pc \in {"building", "cleaning"}
  /\ Abort("Interrupt", ret.fetched, ret.first)
  /\ UNCHANGED <<BIBLE_INDEX, SEARCH_CACHE, nextBook, supplied, built, asked,
                 lastOp, calls>>

(***************************************************************************)
(* Calls on the returned Bible.                                            *)
(***************************************************************************)
\* one more call on the returned Bible
Called ==
  /\ pc = "returned"
  /\ calls < MaxCalls
  /\ calls' = calls + 1

\* Bible.book(name)
CallBook(name) ==
  /\ UNCHANGED <<simVars, auxVars>>
  /\ Called
  /\ bible' = [bible EXCEPT !.books = book_created(@, name, bible.language)]
  /\ lastOp' = [NoOp EXCEPT !.op = "book", !.created = ~HasKey(bible.books, name)]
  /\ UNCHANGED <<BIBLE_INDEX, SEARCH_CACHE, pc, nextBook, ret, supplied, partial,
                 built, asked>>

\* Book.chapter(chapter_number) on the book under name
CallChapter(name, chapter_number) ==
  /\ UNCHANGED <<simVars, auxVars>>
  /\ Called
  /\ HasKey(bible.books, name)
  /\ bible' = [bible EXCEPT !.books =
                 Put(@, name, chapter_created(Get(@, name), chapter_number))]
  /\ lastOp' = [NoOp EXCEPT !.op = "chapter",
                  !.created = ~HasKey(Get(bible.books, name).chapters, chapter_number)]
  /\ UNCHANGED <<BIBLE_INDEX, SEARCH_CACHE, pc, nextBook, ret, supplied, partial,
                 built, asked>>

\* Bible.books, Book.chapters, Chapter.verses, Chapter.verse(verse_number)
CallRead ==
  /\ UNCHANGED <<simVars, auxVars>>
  /\ Called
  /\ lastOp' = [NoOp EXCEPT !.op = "read"]
  /\ UNCHANGED <<BIBLE_INDEX, SEARCH_CACHE, pc, bible, nextBook, ret, supplied,
                 partial, built, asked>>

\* Book.chapter_to_similarity(text) on the book under name
QueryChapters(name, text) ==
  /\ UNCHANGED <<simVars, auxVars>>
  /\ Called
  /\ HasKey(bible.books, name)
  /\ \E r \in {chapter_to_similarity(Get(bible.books, name), text,
                                      BIBLE_INDEX.norm, SEARCH_CACHE.chap,
                                      bible.version)} :
     LET q == <<"chapter_to_similarity", bible.version, name, text>>
     IN /\ BIBLE_INDEX' = [BIBLE_INDEX EXCEPT !.norm = r.norm]
        /\ SEARCH_CACHE' = [SEARCH_CACHE EXCEPT !.chap = r.chap]
        /\ lastOp' = [NoOp EXCEPT !.op = "chapter_to_similarity", !.hit = r.hit,
                        !.repeat = (q \in asked), !.by = r.by, !.text = text,
                        !.raised = r.raised, !.value = r.value]
        /\ asked' = IF r.raised = "" THEN asked \cup {q} ELSE asked
  /\ UNCHANGED <<pc, bible, nextBook, ret, supplied, partial, built>>

\* Bible.book_to_similarity(text)
QueryBooks(text) ==
  /\ UNCHANGED <<simVars, auxVars>>
  /\ Called
  /\ \E r \in {book_to_similarity(bible, text, BIBLE_INDEX.norm, SEARCH_CACHE)} :
     LET q == <<"book_to_similarity", bible.version, "", text>>
     IN /\ BIBLE_INDEX' = [BIBLE_INDEX EXCEPT !.norm = r.norm]
        /\ SEARCH_CACHE' = r.memo
        /\ lastOp' = [NoOp EXCEPT !.op = "book_to_similarity", !.hit = r.hit,
                        !.repeat = (q \in asked), !.by = r.by, !.text = text,
                        !.raised = r.raised, !.value = r.value]
        /\ asked' = IF r.raised = "" THEN asked \cup {q} ELSE asked
  /\ UNCHANGED <<pc, bible, nextBook, ret, supplied, partial, built>>

\* a version the source does not hold (test_bible_unknown)
UnknownVersion == "unknown"

\* the bodies the source can answer a request for a book of a version with
Answers(version) ==
  IF version \in Versions THEN Responses ELSE {NullBody, NoKey, RequestError}

\* the versions of the build specification
BuildVersions == {"kjv", UnknownVersion}

Build ==
  \/ \E version \in BuildVersions : Construct(version, "EN")
  \/ \E response \in Answers(bible.version) : BuildBook(response)
  \/ CleanText
  \/ Interrupt

\* construction from the remote source and from the snapshot, against every
\* response of the source and with interruptions
Next == Build

Spec == Init /\ [][Next]_vars

\* a source that answers every request with a whole book, and every book of
\* a build with the same number of chapters
FullBook(n) == [c \in 1..n |-> <<ToString(c), ChapterObj(c, MaxVerse)>>]

UseResponses == {[book |-> FullBook(n)] : n \in 1..MaxChapter}

\* the calls a holder of the returned Bible makes
Use ==
  \/ \E name \in Range(BOOKS) \cup {OtherBook} : CallBook(name)
  \/ \E name \in Range(BOOKS) \cup {OtherBook}, n \in 1..(MaxChapter + 1) :
       CallChapter(name, n)
  \/ CallRead
  \/ \E name \in Range(BOOKS) \cup {OtherBook}, text \in QueryTexts :
       QueryChapters(name, text)
  \/ \E text \in QueryTexts : QueryBooks(text)

\* two versions of one language
UseVersions == {"kjv", "basicenglish"}

NextUse ==
  \/ \E version \in UseVersions : Construct(version, VERSION_TO_LANGUAGE(version))
  \/ \E response \in UseResponses :
       /\ pc = "building"
       /\ IF nextBook = 1 THEN TRUE ELSE response.book = supplied[1][2]
       /\ BuildBook(response)
  \/ CleanText
  \/ Use

SpecUse == Init /\ [][NextUse]_vars

(***************************************************************************)
(* The body of Bible.book_to_similarity step by step: pool.map hands the   *)
(* books to the workers of the pool in order, a worker runs                *)
(* compute_book_to_similarity on its book, and the caller merges, sorts,   *)
(* rescales and filters.  A book is given by its name and by the ratio     *)
(* Chapter.compute_sim returns for each of its chapters, in the order of   *)
(* Book.chapters.                                                          *)
(***************************************************************************)
Ratios == {0, 1, 1000}

RECURSIVE RatioDictsOfLen(_)
RatioDictsOfLen(n) ==
  IF n = 0 THEN {<<>>}
  ELSE {Append(d, <<n, r>>) : d \in RatioDictsOfLen(n - 1), r \in Ratios}

RatioDicts == UNION {RatioDictsOfLen(n) : n \in 0..MaxChapter}

\* the bibles of n books whose first book has the chapter ratios a, whose
\* books 2..k have one chapter of ratio b and the others one of ratio c
SimBibles ==
  UNION {
    {[i \in 1..n |->
        <<BookNames[i],
          IF i = 1 THEN a ELSE IF i <= k THEN <<<<1, b>>>> ELSE <<<<1, c>>>> >>] :
       a \in RatioDicts, b \in Ratios, c \in Ratios} :
    n \in 1..MaxSimBooks, k \in 1..MaxSimBooks}

SimInit ==
  /\ MainInit
  /\ AuxIdle
  /\ simBooks \in SimBibles
  /\ simPc = "map"
  /\ simNext = 1
  /\ simRunning = {}
  /\ simRes = [i \in 1..Len(simBooks) |-> NoneValue]
  /\ simRuns = [i \in 1..Len(simBooks) |-> 0]
  /\ simMerged = <<>>
  /\ simSorted = <<>>
  /\ simNormalized = <<>>
  /\ simOut = <<>>

\* pool.map gives the next book to a free worker
SimDispatch ==
  /\ simPc = "map"
  /\ simNext <= Len(simBooks)
  /\ Cardinality(simRunning) < PoolSize
  /\ simRunning' = simRunning \cup {simNext}
  /\ simNext' = simNext + 1
  /\ UNCHANGED <<simPc, simBooks, simRes, simRuns, simMerged, simSorted,
                 simNormalized, simOut>>
  /\ UNCHANGED <<mainVars, auxVars>>

\* a worker finishes compute_book_to_similarity on book i
SimTaskDone(i) ==
  /\ simPc = "map"
  /\ i \in simRunning
  /\ simRes' = [simRes EXCEPT ![i] =
                  BookScore(simBooks[i][1], sort_dict(simBooks[i][2], "value", TRUE))]
  /\ simRuns' = [simRuns EXCEPT ![i] = @ + 1]
  /\ simRunning' = simRunning \ {i}
  /\ UNCHANGED <<simPc, simBooks, simNext, simMerged, simSorted, simNormalized,
                 simOut>>
  /\ UNCHANGED <<mainVars, auxVars>>

\* pool.map returns res, or raises the exception of a task;
\* book_to_similarity = dict(ChainMap(*res))
SimMerge ==
  /\ simPc = "map"
  /\ simNext > Len(simBooks)
  /\ simRunning = {}
  /\ IF \E i \in 1..Len(simRes) : simRes[i].raised # ""
       THEN /\ simPc' = "raised"
            /\ simMerged' = simMerged
       ELSE /\ simPc' = "merged"
            /\ simMerged' = ChainMapDict([i \in 1..Len(simRes) |-> simRes[i].value])
  /\ UNCHANGED <<simBooks, simNext, simRunning, simRes, simRuns, simSorted,
                 simNormalized, simOut>>
  /\ UNCHANGED <<mainVars, auxVars>>

SimSort ==
  /\ simPc = "merged"
  /\ simSorted' = sort_dict(simMerged, "value", TRUE)
  /\ simPc' = "sorted"
  /\ UNCHANGED <<simBooks, simNext, simRunning, simRes, simRuns, simMerged,
                 simNormalized, simOut>>
  /\ UNCHANGED <<mainVars, auxVars>>

SimNormalize ==
  /\ simPc = "sorted"
  /\ simNormalized' = normalize(simSorted)
  /\ simPc' = "normalized"
  /\ UNCHANGED <<simBooks, simNext, simRunning, simRes, simRuns, simMerged,
                 simSorted, simOut>>
  /\ UNCHANGED <<mainVars, auxVars>>

SimFilter ==
  /\ simPc = "normalized"
  /\ simOut' = Filtered(simNormalized)
  /\ simPc' = "done"
  /\ UNCHANGED <<simBooks, simNext, simRunning, simRes, simRuns, simMerged,
                 simSorted, simNormalized>>
  /\ UNCHANGED <<mainVars, auxVars>>

SimNext ==
  \/ SimDispatch
  \/ \E i \in 1..MaxSimBooks : SimTaskDone(i)
  \/ SimMerge
  \/ SimSort
  \/ SimNormalize
  \/ SimFilter

SpecSim == SimInit /\ [][SimNext]_vars

(***************************************************************************)
(* Properties of the construction (specification Spec).                    *)
(***************************************************************************)
\* C1: every Bible a construction returns has exactly the canonical books
C1_ReturnedBooksCanonical ==
  ret.status = "bible" => Keys(ret.books) = Range(BOOKS)

\* C2: when the first fetch of a construction answers U or a body without
\* the "book" key, the construction raises BibleNotFound, returns no Bible
\* and leaves no entry under the version in BIBLE_INDEX
C2_UnknownVersionRaises ==
  (ret.first \in {NullBody, NoKey}) =>
    /\ ret.status = "raised"
    /\ ret.exc = "BibleNotFound"
    /\ pc = "raised"
    /\ bible = NoBible
    /\ ~InIndex(BIBLE_INDEX, ret.version)

C2_Witness ==
  /\ ret.first \in {NullBody, NoKey}
  /\ ret.status = "raised"
  /\ \E v \in BuildVersions : v # ret.version /\ InIndex(BIBLE_INDEX, v)

\* C3: a construction for a version whose build stopped with books missing
\* does not take the snapshot: it fetches from the source
C3_TruncatedSnapshotNotTrusted ==
  (ret.status # "none" /\ ret.wasPartial) => ret.path = "fetch"

\* C4: once a build of a version has completed, a construction for that
\* version fetches nothing and returns the corpus the build persisted, and
\* the snapshot stays as the build left it
C4_BuiltVersionReused ==
  /\ \A v \in DOMAIN built :
       InIndex(BIBLE_INDEX, v) /\ BIBLE_INDEX.snap[v] = built[v]
  /\ (ret.status # "none" /\ ret.wasBuilt) =>
       /\ ret.status = "bible"
       /\ ret.path = "cache"
       /\ ~ret.fetched
       /\ ret.books = built[ret.version]

C4_Witness ==
  /\ ret.status = "bible"
  /\ ret.wasBuilt
  /\ ret.path = "cache"
  /\ ret.books # <<>>

\* the Book that holds every chapter and verse of the supplied dict
SuppliedMatches(book, chapter_to_verse) ==
  /\ KeyList(book.chapters) =
       [i \in 1..Len(chapter_to_verse) |-> IntOf(chapter_to_verse[i][1])]
  /\ \A i \in 1..Len(chapter_to_verse) :
       LET given == chapter_to_verse[i][2].chapter
           ch == book.chapters[i][2]
       IN /\ KeyList(ch.verses) = [j \in 1..Len(given) |-> IntOf(given[j][1])]
          /\ \A j \in 1..Len(given) :
               ch.verses[j][2].text = Strip(given[j][2].verse)

\* C5: during a build (and where it stopped) the snapshot under the version
\* holds exactly the books populated to completion so far, in canonical
\* order, each with every chapter and verse the source supplied
C5_SnapshotIsCompletedBooks ==
  (pc \in {"building", "cleaning", "raised"} /\ ret.path = "fetch"
     /\ InIndex(BIBLE_INDEX, ret.version)) =>
    LET snap == BIBLE_INDEX.snap[ret.version]
    IN /\ KeyList(snap) = KeyList(supplied)
       /\ KeyList(snap) = SubSeq(BOOKS, 1, Len(snap))
       /\ \A i \in 1..Len(snap) : SuppliedMatches(snap[i][2], supplied[i][2])

\* C6: when a construction returns a Bible, BIBLE_INDEX holds the
\* normalized text of every verse, chapter and book of it
C6_ReturnedIsNormalized ==
  (ret.status = "bible" /\ pc = "returned") =>
    \A t \in Range(CorpusTexts(Values(ret.books))) :
      Sha256(t) \in DOMAIN BIBLE_INDEX.norm

(***************************************************************************)
(* Properties of the calls on a returned Bible (specification SpecUse).    *)
(***************************************************************************)
\* C7 as stated: no call on a returned Bible changes its books, chapters
\* or verses
C7_NeverMutated ==
  pc = "returned" => bible.books = ret.books

\* C7 as amended: a call that is not Bible.book with an absent name or
\* Book.chapter with an absent number leaves books, chapters and verses as
\* they were
C7_ReadsKeepStructure ==
  [][(pc = "returned" /\ calls' = calls + 1 /\ ~lastOp'.created)
       => bible'.books = bible.books]_vars

C7_Witness ==
  /\ pc = "returned"
  /\ lastOp.op = "book"
  /\ ~lastOp.created
  /\ bible.books # <<>>
  /\ bible.books = ret.books

\* C8: a memoized result is returned only to the version and query text
\* that computed it, and a query repeated for the same version, book and
\* text is served from SEARCH_CACHE
C8_CachePerVersionAndQuery ==
  (lastOp.op \in {"chapter_to_similarity", "book_to_similarity"}) =>
    /\ lastOp.hit => lastOp.by = <<bible.version, lastOp.text>>
    /\ lastOp.repeat => lastOp.hit

(***************************************************************************)
(* Properties of the book_to_similarity pipeline (specification SpecSim).  *)
(***************************************************************************)
NonIncreasing(d) == \A i \in 1..(Len(d) - 1) : d[i][2] >= d[i + 1][2]

\* the entries are rescaled when there are MinEntries of them and their sum
\* is not zero
Rescaled(d) == Len(d) >= MinEntries /\ SumSeq(Values(d)) # 0

\* C9: the dict book_to_similarity returns is in non-increasing order of
\* score and has no entry of score 0.0
C9_RankingSortedNoZero ==
  simPc = "done" =>
    /\ NonIncreasing(simOut)
    /\ \A i \in 1..Len(simOut) : simOut[i][2] # 0

C9_Witness ==
  /\ simPc = "done"
  /\ Rescaled(simSorted)
  /\ Len(simOut) >= 2
  /\ Len(simOut) < Len(simSorted)
  /\ simOut[1][2] > simOut[Len(simOut)][2]

\* the highest ratio of a non-empty dict chapter -> ratio
MaxRatio(ratios) ==
  CHOOSE r \in Range(Values(ratios)) : \A q \in Range(Values(ratios)) : r >= q

\* C10: before rescaling and filtering, book_to_similarity has exactly one
\* score per book, computed by exactly one task for that book, and the score
\* is the highest chapter ratio of the book
C10_OneTopScorePerBook ==
  simPc = "merged" =>
    /\ Len(simMerged) = Len(simBooks)
    /\ \A i \in 1..Len(simBooks) :
         /\ simRuns[i] = 1
         /\ simRes[i].value = <<<<simBooks[i][1], MaxRatio(simBooks[i][2])>>>>
         /\ HasKey(simMerged, simBooks[i][1])
         /\ Get(simMerged, simBooks[i][1]) = MaxRatio(simBooks[i][2])

C10_Witness ==
  /\ simPc = "merged"
  /\ Len(simBooks) >= 3
  /\ \E i \in 1..Len(simBooks) :
       /\ Len(simBooks[i][2]) >= 2
       /\ simBooks[i][2][1][2] < simBooks[i][2][2][2]
  /\ \E i, j \in 1..Len(simBooks) : simMerged[i][2] # simMerged[j][2]

(***************************************************************************)
(* Properties of Book.chapter_to_similarity (specification SpecUse).       *)
(***************************************************************************)
\* the ratio of a chapter for a query text, both normalized in the chapter's
\* language
RatioOf(chapter, text) ==
  cosine_sim(CleanOf(text, chapter.language),
             CleanOf(ChapterText(chapter), chapter.language))

\* C11: chapter_to_similarity returns a mapping with one entry per chapter
\* of the book, each the cosine of the normalized query and the normalized
\* chapter text, in non-increasing order of ratio
C11_ChapterRatiosComplete ==
  lastOp.op = "chapter_to_similarity" =>
    /\ lastOp.raised = ""
    /\ \E name \in Keys(bible.books) :
         LET chapters == Get(bible.books, name).chapters
         IN /\ Len(lastOp.value) = Len(chapters)
            /\ Keys(lastOp.value) = Keys(chapters)
            /\ \A i \in 1..Len(chapters) :
                 /\ RatioOf(chapters[i][2], lastOp.text).raised = ""
                 /\ Get(lastOp.value, chapters[i][1]) =
                      RatioOf(chapters[i][2], lastOp.text).value
    /\ NonIncreasing(lastOp.value)

(***************************************************************************)
(* Properties of misc.normalize (specification SpecSim, where it is        *)
(* applied to the sorted scores of 1 .. MaxSimBooks books).                *)
(***************************************************************************)
\* out is v / total rounded to 3 decimals; v and out are in thousandths
RoundedTo3(out, v, total) ==
  /\ 2 * (out * total - 1000 * v) <= total
  /\ 2 * (1000 * v - out * total) <= total

\* C12: normalize returns its input unchanged when it has fewer than 10
\* entries or its values sum to zero; otherwise it has the same keys in the
\* same order and every value is value / sum rounded to 3 decimal places
C12_NormalizeRescales ==
  simPc \in {"normalized", "done"} =>
    LET total == SumSeq(Values(simSorted))
    IN IF Len(simSorted) < 10 \/ total = 0
         THEN simNormalized = simSorted
         ELSE /\ KeyList(simNormalized) = KeyList(simSorted)
              /\ \A i \in 1..Len(simSorted) :
                   RoundedTo3(simNormalized[i][2], simSorted[i][2], total)

C12_Witness ==
  /\ simPc = "normalized"
  /\ Len(simSorted) = 10
  /\ simNormalized # simSorted
  /\ \E i, j \in 1..Len(simSorted) :
       /\ simNormalized[i][2] # simNormalized[j][2]
       /\ simNormalized[j][2] # 0
       /\ simNormalized[i][2] # 0

(***************************************************************************)
(* Calls of the pure functions on drawn arguments (specification SpecFn):  *)
(* cosine_sim on two texts, and sort_dict on a dict chapter -> ratio and   *)
(* on the same entries inserted in another order.                          *)
(***************************************************************************)
\* the texts cosine_sim is called on
FnTexts ==
  Range(Lines) \cup QueryTexts
    \cup {<<>>, <<"God">>, <<"God", " ", "loves", " ", "the">>}

\* the orders in which the entries of d can have been inserted
Reordered(d) ==
  {[i \in 1..Len(d) |-> d[f[i]]] :
     f \in {g \in [1..Len(d) -> 1..Len(d)] :
              \A i, j \in 1..Len(d) : g[i] = g[j] => i = j}}

\* a store that is empty or holds a value under the key of text
FnStores(text) ==
  {EmptyFcn} \cup {[k \in {Sha256(text)} |-> CleanOf(text, language)] :
                     language \in Languages}

\* <<text, language, whether the cache passed as index_name is BIBLE_INDEX,
\* the content of the cache passed, the content of BIBLE_INDEX>>
FnNormArgs ==
  {a \in UNION {{<<text, language, same, passed, norm>> :
                   language \in Languages, same \in BOOLEAN,
                   passed \in FnStores(text), norm \in FnStores(text)} :
                text \in QueryTexts} :
     a[3] => a[4] = a[5]}

FnInit ==
  /\ MainInit
  /\ SimIdle
  /\ NrmIdle
  /\ FillIdle
  /\ AppIdle
  /\ fnPc = "ready"
  /\ fnOut = NoneValue
  /\ \/ /\ fnOp = "cosine_sim"
        /\ fnArgs \in FnTexts \X FnTexts
     \/ /\ fnOp = "sort_dict"
        /\ fnArgs \in {<<d, e>> : d \in RatioDicts, e \in UNION {Reordered(c) : c \in RatioDicts}}
        /\ fnArgs[2] \in Reordered(fnArgs[1])
     \/ /\ fnOp = "normalize_text"
        /\ fnArgs \in FnNormArgs

\* cosine_sim(str_a, str_b)
CallCosineSim ==
  /\ fnPc = "ready"
  /\ fnOp = "cosine_sim"
  /\ fnOut' = cosine_sim(fnArgs[1], fnArgs[2])
  /\ fnPc' = "done"
  /\ UNCHANGED <<fnOp, fnArgs>>
  /\ UNCHANGED <<mainVars, simVars, nrmVars, fillVars, appVars>>

\* sort_dict(d, by="value") on the two insertion orders
CallSortDict ==
  /\ fnPc = "ready"
  /\ fnOp = "sort_dict"
  /\ fnOut' = <<sort_dict(fnArgs[1], "value", TRUE),
                sort_dict(fnArgs[2], "value", TRUE)>>
  /\ fnPc' = "done"
  /\ UNCHANGED <<fnOp, fnArgs>>
  /\ UNCHANGED <<mainVars, simVars, nrmVars, fillVars, appVars>>

\* normalize_text(text, spacy_model, index_name) twice with the same cache:
\* the two results and the content of the cache passed after the first call
CallNormalizeText ==
  /\ fnPc = "ready"
  /\ fnOp = "normalize_text"
  /\ LET text == fnArgs[1]
         language == fnArgs[2]
         first == normalize_text(text, language, fnArgs[4], fnArgs[5])
         passed == IF fnArgs[3] THEN first.norm ELSE fnArgs[4]
     IN fnOut' = [first |-> first, passed |-> passed,
                  second |-> normalize_text(text, language, passed, first.norm)]
  /\ fnPc' = "done"
  /\ UNCHANGED <<fnOp, fnArgs>>
  /\ UNCHANGED <<mainVars, simVars, nrmVars, fillVars, appVars>>

FnNext == CallCosineSim \/ CallSortDict \/ CallNormalizeText

SpecFn == FnInit /\ [][FnNext]_vars

\* C13: cosine_sim returns 0.0 and does not raise when one of the texts, or
\* both, are empty or have no bigram and no trigram
C13_DegenerateCosineIsZero ==
  (fnPc = "done" /\ fnOp = "cosine_sim"
     /\ (Grams(LowerText(fnArgs[1])) = <<>> \/ Grams(LowerText(fnArgs[2])) = <<>>)) =>
    /\ fnOut.raised = ""
    /\ fnOut.value = 0

\* C14: for the same chapters and ratios the returned mapping is iterated in
\* the same order whatever order the chapters were inserted and scanned in,
\* equal ratios included
C14_OrderIndependentOfScan ==
  (fnPc = "done" /\ fnOp = "sort_dict") => fnOut[1] = fnOut[2]

(***************************************************************************)
(* similarity.normalize_text run by worker processes against the shared    *)
(* store BIBLE_INDEX: computing the key, the membership test, the read on  *)
(* a hit, and the tokenization and store on a miss are the steps that      *)
(* other processes can interleave with.                                    *)
(***************************************************************************)
NormTexts == QueryTexts

\* a key that covers the language as well as the text
NormCallByLanguage(p, text, language) ==
  /\ nrmPc[p] = "idle"
  /\ nrmArgs' = [nrmArgs EXCEPT ![p] = <<text, language>>]
  /\ nrmKey' = [nrmKey EXCEPT ![p] = Sha256(<<language>> \o text)]
  /\ nrmPc' = [nrmPc EXCEPT ![p] = "check"]
  /\ UNCHANGED <<nrmRet, nrmTok, nrmFirst>>
  /\ UNCHANGED <<mainVars, simVars, fnVars, fillVars, appVars>>

\* index_key = sha256(text.encode("utf-8")).hexdigest()
NormCall(p, text, language) ==
  /\ nrmPc[p] = "idle"
  /\ nrmArgs' = [nrmArgs EXCEPT ![p] = <<text, language>>]
  /\ nrmKey' = [nrmKey EXCEPT ![p] = Sha256(text)]
  /\ nrmPc' = [nrmPc EXCEPT ![p] = "check"]
  /\ UNCHANGED <<nrmRet, nrmTok, nrmFirst>>
  /\ UNCHANGED <<mainVars, simVars, fnVars, fillVars, appVars>>

\* a membership test that never finds the key
NormCheckMiss(p) ==
  /\ nrmPc[p] = "check"
  /\ nrmPc' = [nrmPc EXCEPT ![p] = "compute"]
  /\ UNCHANGED <<nrmArgs, nrmKey, nrmRet, nrmTok, nrmFirst>>
  /\ UNCHANGED <<mainVars, simVars, fnVars, fillVars, appVars>>

\* if index_key in index_name
NormCheck(p) ==
  /\ nrmPc[p] = "check"
  /\ nrmPc' = [nrmPc EXCEPT ![p] =
                 IF nrmKey[p] \in DOMAIN BIBLE_INDEX.norm THEN "read" ELSE "compute"]
  /\ UNCHANGED <<nrmArgs, nrmKey, nrmRet, nrmTok, nrmFirst>>
  /\ UNCHANGED <<mainVars, simVars, fnVars, fillVars, appVars>>

\* return BIBLE_INDEX[index_key]
NormRead(p) ==
  /\ nrmPc[p] = "read"
  /\ nrmRet' = [nrmRet EXCEPT ![p] =
                  [text |-> nrmArgs[p][1], language |-> nrmArgs[p][2], hit |-> TRUE,
                   value |-> BIBLE_INDEX.norm[nrmKey[p]]]]
  /\ nrmPc' = [nrmPc EXCEPT ![p] = "idle"]
  /\ UNCHANGED <<nrmArgs, nrmKey, nrmTok, nrmFirst>>
  /\ UNCHANGED <<mainVars, simVars, fnVars, fillVars, appVars>>

\* the else branch: tokenize, BIBLE_INDEX[index_key] = clean_text, return it
NormStore(p) ==
  /\ nrmPc[p] = "compute"
  /\ LET text == nrmArgs[p][1]
         language == nrmArgs[p][2]
         index_key == nrmKey[p]
         cleaned == CleanOf(text, language)
     IN /\ BIBLE_INDEX' =
             [BIBLE_INDEX EXCEPT !.norm =
                [k \in DOMAIN @ \cup {index_key} |->
                   IF k = index_key THEN cleaned ELSE @[k]]]
        /\ nrmRet' = [nrmRet EXCEPT ![p] =
                        [text |-> text, language |-> language, hit |-> FALSE,
                         value |-> cleaned]]
        /\ nrmTok' = [t \in DOMAIN nrmTok \cup {text} |->
                        IF t = text
                          THEN (IF t \in DOMAIN nrmTok THEN nrmTok[t] ELSE 0) + 1
                          ELSE nrmTok[t]]
        /\ nrmFirst' = IF text \in DOMAIN nrmFirst THEN nrmFirst
                       ELSE [t \in DOMAIN nrmFirst \cup {text} |->
                               IF t = text THEN <<cleaned, language>>
                               ELSE nrmFirst[t]]
  /\ nrmPc' = [nrmPc EXCEPT ![p] = "idle"]
  /\ UNCHANGED <<nrmArgs, nrmKey>>
  /\ UNCHANGED <<SEARCH_CACHE, pc, bible, nextBook, ret, supplied, partial, built,
                 asked, lastOp, calls>>
  /\ UNCHANGED <<simVars, fnVars, fillVars, appVars>>

NormStep(p) ==
  \/ \E text \in NormTexts, language \in Languages : NormCall(p, text, language)
  \/ NormCheck(p)
  \/ NormRead(p)
  \/ NormStore(p)

NormNext == \E p \in Workers : NormStep(p)

\* worker processes normalizing texts concurrently
SpecNorm == Init /\ [][NormNext]_vars

\* C15: while workers normalize concurrently, no entry of the normalized-text
\* cache is removed and no key that is present is mapped to another value
C15_EntriesNeverChange ==
  [][\A k \in DOMAIN BIBLE_INDEX.norm :
       /\ k \in DOMAIN BIBLE_INDEX'.norm
       /\ BIBLE_INDEX'.norm[k] = BIBLE_INDEX.norm[k]]_vars

\* one process calling normalize_text again and again
NormSeqNext == NormStep(1)

SpecNormSeq == Init /\ [][NormSeqNext]_vars

\* C16: a text is tokenized once however often normalize_text is called on
\* it; a later call finds the key and returns the value the first call stored
C16_TokenizedOnce ==
  /\ \A t \in DOMAIN nrmTok : nrmTok[t] = 1
  /\ nrmPc[1] = "compute" => nrmArgs[1][1] \notin DOMAIN nrmTok
  /\ nrmPc[1] = "read" => nrmArgs[1][1] \in DOMAIN nrmTok
  /\ nrmRet[1].hit => nrmRet[1].value = nrmFirst[nrmRet[1].text][1]

C16_Witness ==
  /\ nrmPc[1] = "idle"
  /\ nrmRet[1].hit
  /\ nrmRet[1].language = nrmFirst[nrmRet[1].text][2]
  /\ nrmRet[1].value = CleanOf(nrmRet[1].text, nrmRet[1].language)
  /\ nrmRet[1].value # <<>>
  /\ nrmTok[nrmRet[1].text] = 1

\* C17: a call under another language than the one the text was first
\* normalized with is a hit that returns the first call's value, and the
\* second language's model does not tokenize the text
C17_KeyIgnoresLanguage ==
  (nrmRet[1] # NoCall /\ nrmRet[1].language # nrmFirst[nrmRet[1].text][2]) =>
     /\ nrmRet[1].hit
     /\ nrmRet[1].value = nrmFirst[nrmRet[1].text][1]
     /\ nrmRet[1].value = CleanOf(nrmRet[1].text, nrmFirst[nrmRet[1].text][2])
     /\ nrmTok[nrmRet[1].text] = 1
     /\ nrmRet[1].value = BIBLE_INDEX.norm[Sha256(nrmRet[1].text)]

C17_Witness ==
  /\ nrmPc[1] = "idle"
  /\ nrmRet[1].hit
  /\ nrmRet[1].language # nrmFirst[nrmRet[1].text][2]
  /\ nrmRet[1].value # CleanOf(nrmRet[1].text, nrmRet[1].language)

(***************************************************************************)
(* A Bible filled call by call, as populate_book does with                 *)
(* self.book(book).chapter(int(chapter_num)).add_verse(verse): Bible.book, *)
(* Book.chapter on a book obtained from it, Chapter.add_verse on a chapter *)
(* obtained from that.                                                     *)
(***************************************************************************)
FillLanguage == "EN"

FillNames == {BookNames[1], OtherBook}

FillNumbers == {1, 2}

FillVerseNumbers == {1}

FillTexts == {Lines[2], Lines[5]}

\* Bible.book(name)
FillBook(name) ==
  /\ fillBooks' = book_created(fillBooks, name, FillLanguage)
  /\ fillOp' = [NoFill EXCEPT !.op = "book", !.key = <<name>>,
                  !.created = ~HasKey(fillBooks, name),
                  !.returned = Get(fillBooks', name)]
  /\ UNCHANGED <<mainVars, simVars, fnVars, nrmVars, appVars>>

\* Book.chapter(chapter_number) on the book under name
FillChapter(name, chapter_number) ==
  /\ HasKey(fillBooks, name)
  /\ fillBooks' = Put(fillBooks, name,
                      chapter_created(Get(fillBooks, name), chapter_number))
  /\ fillOp' = [NoFill EXCEPT !.op = "chapter", !.key = <<name, chapter_number>>,
                  !.created = ~HasKey(Get(fillBooks, name).chapters, chapter_number),
                  !.returned = Get(Get(fillBooks', name).chapters, chapter_number)]
  /\ UNCHANGED <<mainVars, simVars, fnVars, nrmVars, appVars>>

\* Chapter.add_verse(Verse(number, text, language)) on that chapter
FillAddVerse(name, chapter_number, number, text) ==
  /\ HasKey(fillBooks, name)
  /\ HasKey(Get(fillBooks, name).chapters, chapter_number)
  /\ LET book == Get(fillBooks, name)
         chapter == Get(book.chapters, chapter_number)
         filled == add_verse(chapter, Verse(number, text, FillLanguage))
     IN /\ fillBooks' = Put(fillBooks, name,
                            [book EXCEPT !.chapters = Put(@, chapter_number, filled)])
        /\ fillOp' = [op |-> "add_verse", key |-> <<name, chapter_number, number>>,
                      created |-> ~HasKey(chapter.verses, number),
                      returned |-> Verse(number, text, FillLanguage)]
  /\ UNCHANGED <<mainVars, simVars, fnVars, nrmVars, appVars>>

FillNext ==
  \/ \E name \in FillNames : FillBook(name)
  \/ \E name \in FillNames, chapter_number \in FillNumbers :
       FillChapter(name, chapter_number)
  \/ \E name \in FillNames, chapter_number \in FillNumbers,
        number \in FillVerseNumbers, text \in FillTexts :
       FillAddVerse(name, chapter_number, number, text)

SpecFill == Init /\ [][FillNext]_vars

\* C18: Bible.book and Book.chapter with an absent key store an empty child
\* under the key and return it; with a present key they return the stored
\* child and change nothing
C18_GetOrCreate ==
  [][/\ fillOp'.op = "book" =>
          LET name == fillOp'.key[1]
              empty == [name |-> name, language |-> FillLanguage, chapters |-> <<>>]
          IN IF HasKey(fillBooks, name)
               THEN /\ fillBooks' = fillBooks
                    /\ fillOp'.returned = Get(fillBooks, name)
               ELSE /\ fillBooks' = Append(fillBooks, <<name, empty>>)
                    /\ fillOp'.returned = empty
     /\ fillOp'.op = "chapter" =>
          LET name == fillOp'.key[1]
              n == fillOp'.key[2]
              chapters == Get(fillBooks, name).chapters
              empty == [number |-> n, language |-> FillLanguage, verses |-> <<>>]
          IN IF HasKey(chapters, n)
               THEN /\ fillBooks' = fillBooks
                    /\ fillOp'.returned = Get(chapters, n)
               ELSE /\ Get(fillBooks', name).chapters = Append(chapters, <<n, empty>>)
                    /\ fillOp'.returned = empty
                    /\ \A other \in Keys(fillBooks) \ {name} :
                         Get(fillBooks', other) = Get(fillBooks, other)
                    /\ KeyList(fillBooks') = KeyList(fillBooks)]_vars

C18_Witness ==
  /\ fillOp.op = "chapter"
  /\ ~fillOp.created
  /\ fillOp.returned.verses # <<>>
  /\ fillOp.returned = Get(Get(fillBooks, fillOp.key[1]).chapters, fillOp.key[2])
  /\ HasKey(fillBooks, OtherBook)

\* every key of a dict occurs once
UniqueKeys(d) == \A i, j \in 1..Len(d) : d[i][1] = d[j][1] => i = j

AllUnique(books) ==
  /\ UniqueKeys(books)
  /\ \A i \in 1..Len(books) :
       /\ UniqueKeys(books[i][2].chapters)
       /\ \A j \in 1..Len(books[i][2].chapters) :
            UniqueKeys(books[i][2].chapters[j][2].verses)

\* C19: add_verse with a number already in the chapter and Book.chapter with
\* a number already in the book change nothing (the first text stays), and
\* each number maps to one child after any sequence of additions
C19_FirstWriteWins ==
  [][/\ AllUnique(fillBooks')
     /\ fillOp'.op = "add_verse" =>
          LET chapter == Get(Get(fillBooks, fillOp'.key[1]).chapters, fillOp'.key[2])
              after == Get(Get(fillBooks', fillOp'.key[1]).chapters, fillOp'.key[2])
              number == fillOp'.key[3]
          IN IF HasKey(chapter.verses, number)
               THEN /\ fillBooks' = fillBooks
                    /\ Get(after.verses, number) = Get(chapter.verses, number)
               ELSE /\ after.verses = Append(chapter.verses, <<number, fillOp'.returned>>)
     /\ fillOp'.op = "chapter" =>
          LET chapters == Get(fillBooks, fillOp'.key[1]).chapters
          IN HasKey(chapters, fillOp'.key[2]) =>
               /\ fillBooks' = fillBooks
               /\ fillOp'.returned = Get(chapters, fillOp'.key[2])]_vars

C19_Witness ==
  /\ fillOp.op = "add_verse"
  /\ ~fillOp.created
  /\ LET chapter == Get(Get(fillBooks, fillOp.key[1]).chapters, fillOp.key[2])
     IN /\ Get(chapter.verses, fillOp.key[3]).text # fillOp.returned.text
        /\ Len(Get(fillBooks, fillOp.key[1]).chapters) = 2

\* C20: the Bible a completed build returns holds every canonical book, each
\* with as many chapters as distinct chapter numbers the source supplied for
\* it, each chapter with as many verses as distinct verse numbers supplied
C20_CountsMatchSource ==
  [][(pc = "cleaning" /\ pc' = "returned") =>
       /\ Keys(bible'.books) = Range(BOOKS)
       /\ \A i \in 1..Len(supplied) :
            LET name == supplied[i][1]
                given == supplied[i][2]
            IN /\ HasKey(bible'.books, name)
               /\ num_chapter(Get(bible'.books, name)) =
                    Cardinality({IntOf(given[c][1]) : c \in 1..Len(given)})
               /\ \A c \in 1..Len(given) :
                    LET chapters == Get(bible'.books, name).chapters
                        verses == given[c][2].chapter
                    IN /\ HasKey(chapters, IntOf(given[c][1]))
                       /\ num_verse(Get(chapters, IntOf(given[c][1]))) =
                            Cardinality({IntOf(verses[v][1]) : v \in 1..Len(verses)})]_vars

(***************************************************************************)
(* One book filled call by call with verses under two numbers, whose texts *)
(* carry leading or trailing whitespace.                                   *)
(***************************************************************************)
TextVerseNumbers == {1, 2}

TextTexts == {Lines[1], Lines[3]}

TextNext ==
  \/ FillBook(BookNames[1])
  \/ \E chapter_number \in FillNumbers : FillChapter(BookNames[1], chapter_number)
  \/ \E chapter_number \in FillNumbers, number \in TextVerseNumbers,
        text \in TextTexts :
       FillAddVerse(BookNames[1], chapter_number, number, text)

SpecText == Init /\ [][TextNext]_vars

\* " ".join of a list extended by one part
JoinedWith(joined, wasEmpty, part) ==
  IF wasEmpty THEN part ELSE joined \o <<" ">> \o part

\* C21: Chapter.text is the stripped verse texts joined by single spaces in
\* the order the verses were first added, whatever their numbers, and
\* Book.text joins the chapters' texts in the order the chapters were added
C21_TextInInsertionOrder ==
  [][/\ fillOp'.op = "add_verse" =>
          LET chapter == Get(Get(fillBooks, fillOp'.key[1]).chapters, fillOp'.key[2])
              after == Get(Get(fillBooks', fillOp'.key[1]).chapters, fillOp'.key[2])
          IN ChapterText(after) =
               IF fillOp'.created
                 THEN JoinedWith(ChapterText(chapter), chapter.verses = <<>>,
                                 Strip(fillOp'.returned.text))
                 ELSE ChapterText(chapter)
     /\ fillOp'.op = "chapter" =>
          LET book == Get(fillBooks, fillOp'.key[1])
              after == Get(fillBooks', fillOp'.key[1])
          IN BookText(after) =
               IF fillOp'.created
                 THEN JoinedWith(BookText(book), book.chapters = <<>>, <<>>)
                 ELSE BookText(book)
     /\ fillOp'.op \in {"add_verse", "chapter"} =>
          LET after == Get(fillBooks', fillOp'.key[1])
          IN BookText(after) =
               Join([i \in 1..Len(after.chapters) |->
                       Strip(ChapterText(after.chapters[i][2]))])]_vars

C21_Witness ==
  /\ fillOp.op = "add_verse"
  /\ fillOp.created
  /\ HasKey(fillBooks, BookNames[1])
  /\ LET book == Get(fillBooks, BookNames[1])
     IN /\ KeyList(book.chapters) = <<2, 1>>
        /\ KeyList(book.chapters[1][2].verses) = <<2, 1>>
        /\ book.chapters[1][2].verses[1][2].text = Lines[1]
        /\ book.chapters[1][2].verses[2][2].text = Lines[3]
        /\ ChapterText(book.chapters[1][2]) =
             Strip(Lines[1]) \o <<" ">> \o Strip(Lines[3])
        /\ book.chapters[2][2].verses # <<>>

\* C22: when cosine_sim(a, b) returns a value, cosine_sim(b, a) returns the
\* same value
C22_CosineSymmetric ==
  (fnPc = "done" /\ fnOp = "cosine_sim" /\ fnOut.raised = "") =>
    LET swapped == cosine_sim(fnArgs[2], fnArgs[1])
    IN /\ swapped.raised = ""
       /\ swapped.value = fnOut.value

C22_Witness ==
  /\ fnPc = "done"
  /\ fnOp = "cosine_sim"
  /\ fnOut.raised = ""
  /\ fnOut.value > 0
  /\ fnOut.value < 1000
  /\ Len(Grams(LowerText(fnArgs[1]))) # Len(Grams(LowerText(fnArgs[2])))

\* C23: when normalize rescales (10 or more entries and a non-zero sum), the
\* values it returns sum to 1
C23_RescaledSumsToOne ==
  (simPc \in {"normalized", "done"} /\ Len(simSorted) >= 10
     /\ SumSeq(Values(simSorted)) # 0) =>
    SumSeq(Values(simNormalized)) = 1000

\* C24: the result of book_to_similarity holds exactly the books whose top
\* chapter ratio is greater than 0, rescaled or not
C24_PositiveBooksKept ==
  simPc = "done" =>
    Keys(simOut) = {simMerged[i][1] : i \in {j \in 1..Len(simMerged) : simMerged[j][2] > 0}}

\* C25: a book_to_similarity query gives what it gives on the Bible as the
\* construction returned it, whatever Bible.book and Book.chapter calls with
\* never-populated keys were made before it; it does not fail because of them
C25_ReadsDoNotChangeQuery ==
  lastOp.op = "book_to_similarity" =>
    \E untouched \in {book_to_similarity_body([bible EXCEPT !.books = ret.books],
                                              lastOp.text, BIBLE_INDEX.norm, EmptyFcn)} :
      /\ lastOp.raised = untouched.raised
      /\ lastOp.value = untouched.value

\* C30: after normalize_text returns, the cache passed as index_name holds
\* the key of the text, no other store was written, and a second call with
\* the same cache and text is a hit that returns the same value
C30_OnlyPassedCacheUsed ==
  (fnPc = "done" /\ fnOp = "normalize_text" /\ fnOut.first.raised = "") =>
    /\ Sha256(fnArgs[1]) \in DOMAIN fnOut.passed
    /\ ~fnArgs[3] => fnOut.first.norm = fnArgs[5]
    /\ fnOut.second.raised = ""
    /\ fnOut.second.hit
    /\ fnOut.second.value = fnOut.first.value

(***************************************************************************)
(* bible_app.BibleApp.  The variable app holds the attributes of the app   *)
(* and what its widgets hold: a selector's v_model and items, the loading  *)
(* flags of the search text, the main content and the version selector,    *)
(* whether the search form shows the text field (form), what the main      *)
(* content shows (shown), the names of the market map (mmKeys) and the     *)
(* number of chapter buttons (buttons).  A handler is an operator from the *)
(* app before an event to the app after it; exc is the exception the       *)
(* handler left with.  event ("search", "version", "language", or "" for   *)
(* the others), queried (the handler called Bible.book_to_similarity) and  *)
(* created (a Bible.book or Book.chapter call of the app stored a new      *)
(* child) describe the last event, and events counts the events so far.    *)
(***************************************************************************)
LANGUAGE_TO_VERSIONS(language) ==
  IF language = "EN" THEN <<"kjv", "basicenglish">> ELSE <<"statenvertaling">>

\* the number of GUI events a run of the app is followed for
MaxEvents == 7

MIN_QUERY_WORDS == 3

MAX_QUERY_WORDS == 5

\* misc.count_words: len(phrase.split())
count_words(phrase) ==
  Cardinality({i \in 1..Len(phrase) :
                 phrase[i] # " " /\ (i = 1 \/ phrase[i - 1] = " ")})

\* what the user types into the search field: 0, 2, 3, 5 and 6 words
AppTexts ==
  { <<>>,
    <<"the", " ", "he">>,
    <<"God", " ", "loves", " ", "the">>,
    <<"de", " ", "de", " ", "de", " ", "de", " ", "de">>,
    <<"God", " ", "loves", " ", "the", " ", "Lord", " ", "God", " ", "loves">> }

\* the dict _books of a version built from a source that supplies n
\* chapters of MaxVerse verses for each of the first k books
RECURSIVE BuiltBooks(_, _, _)
BuiltBooks(language, k, n) ==
  IF k = 0 THEN <<>>
  ELSE populate_book(BuiltBooks(language, k - 1, n), language, BOOKS[k],
                     FullBook(n)).books

\* what Bible(version, language) can do in the app: raise BibleNotFound, or
\* return the Bible of the version; the snapshot of basicenglish is the one
\* a build interrupted after the first book left in BIBLE_INDEX
AppOutcomes(version, language) ==
  {[raised |-> "BibleNotFound", bible |-> NoBible],
   [raised |-> "",
    bible |-> [version |-> version, language |-> language,
               books |-> IF version = "basicenglish"
                           THEN BuiltBooks(language, 1, MaxChapter)
                           ELSE BuiltBooks(language, NumBooks, MaxChapter)]]}

\* BibleApp.__post_init__
AppStart ==
  [language_selected |-> "EN", language_value |-> "EN",
   bible_version_selected |-> "kjv", version_value |-> "kjv",
   version_items |-> LANGUAGE_TO_VERSIONS("EN"), version_loading |-> FALSE,
   bible |-> [version |-> "kjv", language |-> "EN",
              books |-> BuiltBooks("EN", NumBooks, MaxChapter)],
   search_mode |-> FALSE, search_found |-> FALSE, book_to_similarity |-> <<>>,
   switcher |-> FALSE, dialog |-> FALSE, form |-> FALSE,
   text |-> <<>>, error_messages |-> "", text_loading |-> FALSE,
   bible_loading |-> FALSE,
   book_items |-> BOOKS, book_value |-> BOOKS[1], book_selected |-> BOOKS[1],
   total_chapter |-> MaxChapter, buttons |-> MaxChapter,
   chapter_selected |-> 1, shown |-> "plain", mmKeys |-> <<>>,
   events |-> 0, event |-> "", exc |-> "", queried |-> FALSE, created |-> FALSE]

\* BibleApp.update_main_content
update_main_content(a) ==
  LET withChapter(books) ==
        Put(books, a.book_selected,
            chapter_created(Get(books, a.book_selected), a.chapter_selected))
      rendered(books) ==
        [a EXCEPT !.bible.books = books,
                  !.created = a.created \/ books # a.bible.books,
                  !.bible_loading = FALSE,
                  !.shown = IF a.search_mode /\ a.search_found
                              THEN "search" ELSE "plain"]
  IN rendered(withChapter(book_created(a.bible.books, a.book_selected,
                                       a.bible.language)))

\* BibleApp.__on_book_selected
on_book_selected(a) ==
  LET name == a.book_value
      opened(books) ==
        [a EXCEPT !.book_selected = name,
                  !.bible.books = books,
                  !.created = a.created \/ books # a.bible.books,
                  !.total_chapter = num_chapter(Get(books, name))]
      ranked(b, c2s) ==
        IF c2s.raised # "" THEN [b EXCEPT !.exc = c2s.raised]
        ELSE IF c2s.value = <<>> THEN [b EXCEPT !.exc = "IndexError"]
        ELSE [b EXCEPT !.chapter_selected = c2s.value[1][1],
                       !.mmKeys = KeyList(c2s.value),
                       !.exc = IF HasKey(b.book_to_similarity, name)
                                 THEN "" ELSE "ValueError"]
      chosen(b) ==
        IF b.search_mode /\ b.search_found
          THEN ranked(b, chapter_to_similarity_body(Get(b.bible.books, name),
                                                    b.text, EmptyFcn))
          ELSE [b EXCEPT !.chapter_selected =
                  IF @ # 0 /\ @ <= b.total_chapter THEN @ ELSE 1]
      finished(b) ==
        IF b.exc # "" THEN b
        ELSE update_main_content([b EXCEPT !.buttons = b.total_chapter])
  IN finished(chosen(opened(book_created(a.bible.books, name, a.bible.language))))

\* the word-count tests of search_phrase without the lower limit
query_error_no_min(query_text) ==
  IF count_words(query_text) > MAX_QUERY_WORDS THEN "Max words Limit" ELSE ""

\* the word-count tests of BibleApp.search_phrase: the error message, or ""
query_error(query_text) ==
  IF count_words(query_text) > MAX_QUERY_WORDS THEN "Max words Limit"
  ELSE IF count_words(query_text) < MIN_QUERY_WORDS
    THEN "At least words are required"
    ELSE ""

\* BibleApp.search_phrase
search_phrase(a) ==
  LET cleared(b) ==
        IF b.exc # "" THEN b
        ELSE [b EXCEPT !.text_loading = FALSE, !.bible_loading = FALSE]
      found(b, market) ==
        IF market.raised # "" THEN [b EXCEPT !.exc = market.raised]
        ELSE cleared(on_book_selected([b EXCEPT !.mmKeys = KeyList(market.value)]))
      answered(b, r) ==
        IF r.raised # "" THEN [b EXCEPT !.exc = r.raised]
        ELSE IF r.value = <<>>
          THEN [b EXCEPT !.book_to_similarity = <<>>, !.shown = "notfound",
                         !.search_found = FALSE, !.text_loading = FALSE,
                         !.bible_loading = FALSE]
          ELSE found([b EXCEPT !.book_to_similarity = r.value,
                               !.search_found = TRUE,
                               !.book_items = KeyList(r.value),
                               !.book_selected = r.value[1][1],
                               !.book_value = r.value[1][1]],
                     chapter_to_similarity_body(Get(b.bible.books, r.value[1][1]),
                                                b.text, EmptyFcn))
  IN IF query_error(a.text) # ""
       THEN [a EXCEPT !.error_messages = query_error(a.text),
                      !.text_loading = FALSE, !.bible_loading = FALSE]
       ELSE answered([a EXCEPT !.text_loading = TRUE, !.bible_loading = TRUE,
                               !.search_mode = TRUE, !.error_messages = "",
                               !.queried = TRUE],
                     book_to_similarity_body(a.bible, a.text, EmptyFcn, EmptyFcn))

\* BibleApp.__on_version_changed, the construction doing outcome
on_version_changed(a, outcome) ==
  LET b == [a EXCEPT !.version_loading = TRUE,
                     !.bible_version_selected = a.version_value]
      picked(c) ==
        on_book_selected(
          [c EXCEPT !.book_items = KeyList(c.bible.books),
                    !.book_value = IF c.book_selected # "" THEN c.book_selected
                                   ELSE KeyList(c.bible.books)[1]])
      constructed(c) ==
        IF c.search_mode THEN search_phrase([c EXCEPT !.version_loading = FALSE])
        ELSE picked(c)
  IN IF outcome.raised # ""
       THEN [b EXCEPT !.version_loading = FALSE, !.exc = outcome.raised]
       ELSE [constructed([b EXCEPT !.bible = outcome.bible])
               EXCEPT !.version_loading = FALSE]

\* BibleApp.__on_language_changed
on_language_changed(a, outcome) ==
  on_version_changed(
       [a EXCEPT !.language_selected = a.language_value,
                 !.bible_version_selected = LANGUAGE_TO_VERSIONS(a.language_value)[1],
                 !.version_value = LANGUAGE_TO_VERSIONS(a.language_value)[1],
                 !.version_items = LANGUAGE_TO_VERSIONS(a.language_value)],
       outcome)

\* BibleApp.__on_search_mode_switched
on_search_mode_switched(a) ==
  IF a.switcher THEN [a EXCEPT !.search_mode = TRUE, !.form = TRUE]
  ELSE IF a.text = <<>> THEN [a EXCEPT !.search_mode = FALSE, !.form = FALSE]
  ELSE [a EXCEPT !.search_mode = FALSE, !.dialog = TRUE]

\* BibleApp.__continue_remove_search
continue_remove_search(a) ==
  update_main_content(
    [a EXCEPT !.search_mode = FALSE, !.switcher = FALSE, !.dialog = FALSE,
              !.text = <<>>, !.form = FALSE,
              !.book_items = KeyList(a.bible.books)])

\* a GUI event begins: the widget holds the user's value
Begin(event, before) ==
  [before EXCEPT !.events = @ + 1, !.event = event, !.exc = "",
                 !.queried = FALSE, !.created = FALSE]

\* one GUI event: after is the app when the widget's observer has run
Fire(after) ==
  /\ app.events < MaxEvents
  /\ app' = after
  /\ UNCHANGED <<mainVars, simVars, fnVars, nrmVars, fillVars>>

\* the user edits the search text (no observer)
TypeText(text) ==
  /\ app.form /\ ~app.dialog /\ text # app.text
  /\ Fire(Begin("", [app EXCEPT !.text = text]))

\* the submit button or the enter key of the search text
Submit ==
  /\ app.form /\ ~app.dialog
  /\ Fire(search_phrase(Begin("search", app)))

\* the search mode switch
Switch ==
  /\ ~app.dialog
  /\ Fire(on_search_mode_switched(Begin("", [app EXCEPT !.switcher = ~@])))

\* the Yes and No buttons of the remove-search dialog
Answer ==
  /\ app.dialog
  /\ \/ Fire(continue_remove_search(Begin("", app)))
     \/ LET cancel_remove_search(a) ==
              [a EXCEPT !.search_mode = TRUE, !.switcher = TRUE, !.dialog = FALSE]
        IN Fire(cancel_remove_search(Begin("", app)))

\* the language selector
ChangeLanguage(language) ==
  /\ ~app.dialog /\ language # app.language_value
  /\ \E outcome \in AppOutcomes(LANGUAGE_TO_VERSIONS(language)[1], language) :
       LET handler(a) == on_language_changed(a, outcome)
       IN Fire(handler(Begin("language", [app EXCEPT !.language_value = language])))

\* the version selector
ChangeVersion(version) ==
  /\ ~app.dialog /\ version # app.version_value
  /\ version \in Range(app.version_items)
  /\ \E outcome \in AppOutcomes(version, app.language_selected) :
       LET handler(a) == on_version_changed(a, outcome)
       IN Fire(handler(Begin("version", [app EXCEPT !.version_value = version])))

\* the book selector
SelectBook(name) ==
  /\ ~app.dialog /\ name \in Range(app.book_items) /\ name # app.book_value
  /\ Fire(on_book_selected(Begin("", [app EXCEPT !.book_value = name])))

\* BibleApp.__on_chapter_clicked on a button of the chapter selector
ClickChapter(number) ==
  /\ ~app.dialog /\ number \in 1..app.buttons
  /\ LET on_chapter_clicked(a) ==
           update_main_content([a EXCEPT !.chapter_selected = number])
     IN Fire(on_chapter_clicked(Begin("", app)))

\* selected_index_changed: a cell of the chapter market map is selected
MarketSelect(number) ==
  /\ ~app.dialog /\ app.shown = "search" /\ number \in Range(app.mmKeys)
  /\ LET selected_index_changed(a) ==
           update_main_content([a EXCEPT !.chapter_selected = number])
     IN Fire(selected_index_changed(Begin("", app)))

\* show_chapter_similarity: a bar of the book similarity plot is clicked
BarClick(name) ==
  /\ ~app.dialog /\ app.shown = "search" /\ HasKey(app.book_to_similarity, name)
  /\ LET show_chapter_similarity(a) ==
           on_book_selected([a EXCEPT !.bible_loading = TRUE, !.book_value = name])
     IN Fire(show_chapter_similarity(Begin("", app)))

AppNext ==
  \/ \E text \in AppTexts : TypeText(text)
  \/ Submit
  \/ Switch
  \/ Answer
  \/ \E language \in Languages : ChangeLanguage(language)
  \/ \E version \in Versions : ChangeVersion(version)
  \/ \E name \in Range(BOOKS) : SelectBook(name)
  \/ \E number \in 1..MaxChapter : ClickChapter(number)
  \/ \E number \in 1..MaxChapter : MarketSelect(number)
  \/ \E name \in Range(BOOKS) : BarClick(name)

AppInit ==
  /\ MainInit /\ SimIdle /\ FnIdle /\ NrmIdle /\ FillIdle
  /\ app = AppStart

SpecApp == AppInit /\ [][AppNext]_vars

\* C26: a submit of the search form runs the similarity query exactly when
\* the text has between MIN_QUERY_WORDS and MAX_QUERY_WORDS words; otherwise
\* it sets an error message, clears the two loading indicators and leaves
\* search_mode, search_found, book_to_similarity, the selected book and the
\* selected chapter as they were
C26_QueryOnlyWithinWordLimits ==
  [][(app'.event = "search" /\ app'.events = app.events + 1) =>
       LET words == count_words(app.text)
           within == MIN_QUERY_WORDS <= words /\ words <= MAX_QUERY_WORDS
       IN /\ app'.queried <=> within
          /\ ~within =>
               /\ app'.error_messages # ""
               /\ ~app'.text_loading /\ ~app'.bible_loading
               /\ app'.search_mode = app.search_mode
               /\ app'.search_found = app.search_found
               /\ app'.book_to_similarity = app.book_to_similarity
               /\ app'.book_selected = app.book_selected
               /\ app'.chapter_selected = app.chapter_selected]_vars

\* a submit of a text of more than MAX_QUERY_WORDS words was refused while
\* the result of an earlier search was shown
C26_Witness ==
  /\ app # NoneValue
  /\ app.event = "search" /\ ~app.queried
  /\ count_words(app.text) > MAX_QUERY_WORDS
  /\ app.error_messages # ""
  /\ app.search_mode /\ app.search_found /\ app.book_to_similarity # <<>>

\* C27: after a language or version change event, one in which the
\* construction of the Bible raised BibleNotFound included,
\* bible_version_selected is the version of the Bible the app holds,
\* language_selected is that Bible's language, and the version selector is
\* not loading
C27_SelectionMatchesBible ==
  app.event \in {"language", "version"} =>
    /\ app.bible_version_selected = app.bible.version
    /\ app.language_selected = app.bible.language
    /\ ~app.version_loading

\* C28: whenever search_mode and search_found are both true,
\* book_to_similarity is the non-empty result of the search text against the
\* Bible the app holds, and the selected book is one of its keys
C28_ResultIsOfCurrentSearch ==
  (app.search_mode /\ app.search_found) =>
    LET current(r) ==
          /\ r.raised = ""
          /\ r.value # <<>>
          /\ app.book_to_similarity = r.value
          /\ HasKey(r.value, app.book_selected)
    IN /\ query_error(app.text) = ""
       /\ current(book_to_similarity_body(app.bible, app.text, EmptyFcn, EmptyFcn))

\* C29: chapter_selected is the number of a chapter of the selected book of
\* the Bible the app holds, and no event made the app store a new Book or
\* Chapter in that Bible
C29_SelectedChapterExists ==
  /\ ~app.created
  /\ HasKey(app.bible.books, app.book_selected)
  /\ HasKey(Get(app.bible.books, app.book_selected).chapters, app.chapter_selected)

====
